---- MODULE Spec2Model ----
(***************************************************************************)
(* Model of stackmate's registry-backed dependency engine                  *)
(* (stackmate/utils/dependency_manager.py): the metadata cache of          *)
(* get_package_info, resolve_version, the two passes of                    *)
(* check_compatibility and the report of analyze_dependencies.             *)
(*                                                                         *)
(* Strings are sequences of tokens.  A version string such as "^5.8.0" is  *)
(* <<"^","5",".","8",".","0">>: every numeric component is one token, the  *)
(* other characters are tokens of their own, and "x" stands for any        *)
(* character that is neither a digit nor an operator.  A package name is a *)
(* sequence of segments, e.g. <<"@types/","node">>.  Pre-release and build *)
(* suffixes of semantic versions are outside the model.                    *)
(***************************************************************************)
EXTENDS Integers, Sequences, FiniteSets, TLC

VARIABLES
    semver_major,   \* major version of the installed python-semver (unpinned)
    registry,       \* package name -> JSON body the registry serves on a 200
    dependencies,   \* the input map, in iteration order: <<[pkg, spec], ...>>
    cache,          \* self.cache: package name -> [data, timestamp]
    now,            \* datetime.now()
    net_calls,      \* number of HTTP GETs issued, per package name
    pc,             \* position of analyze_dependencies
    i,              \* index of the package the current pass is at
    updated_deps,   \* check_compatibility's updated_deps, in insertion order
    warnings,       \* check_compatibility's warnings
    package_info,   \* what the last get_package_info call returned
    peer_deps,      \* Pass 2: the peerDependencies still to process for pkg
    analysis,       \* the report analyze_dependencies returns
    tasks,          \* direct callers of get_package_info: where each one is
    log             \* the get_package_info calls of those callers that returned

vars == <<semver_major, registry, dependencies, cache, now, net_calls, pc, i,
          updated_deps, warnings, package_info, peer_deps, analysis, tasks, log>>

(***************************************************************************)
(* Bounds of the model                                                     *)
(***************************************************************************)

\* the longest registry version list of the single-package inputs
MaxVersions == 2

\* the most filler packages added to a map
MaxFill == 11

\* the clock stops here
MaxTime == 2

\* the most get_package_info calls the direct callers make
MaxCalls == 3

(***************************************************************************)
(* Strings and semantic versions                                           *)
(***************************************************************************)

\* the numeric tokens, by value: NumStr[n + 1] is str(n)
NumStr == <<"0", "1", "2", "3", "4", "5", "6", "7", "8", "9", "10", "11", "12", "13">>

IsNum(t) == \E n \in 1..Len(NumStr) : NumStr[n] = t

\* int(t) of a numeric token
Val(t) == (CHOOSE n \in 1..Len(NumStr) : NumStr[n] = t) - 1

\* str(n)
Str(n) == NumStr[n + 1]

\* parse_version's None: the version string did not parse
NoVersion == <<>>

\* s.replace(ch, "")
Replace(s, ch) == SelectSeq(s, LAMBDA t : t # ch)

\* s.startswith(ch)
StartsWith(s, ch) == Len(s) >= 1 /\ s[1] = ch

\* semver.VersionInfo.parse: <<major, minor, patch>>, or NoVersion for the ValueError
VersionInfoParse(s) ==
    IF /\ Len(s) = 5
       /\ IsNum(s[1]) /\ s[2] = "." /\ IsNum(s[3]) /\ s[4] = "." /\ IsNum(s[5])
    THEN <<Val(s[1]), Val(s[3]), Val(s[5])>>
    ELSE NoVersion

\* str(VersionInfo): "major.minor.patch"
VersionStr(major, minor, patch) == <<Str(major), ".", Str(minor), ".", Str(patch)>>

\* VersionInfo.compare: -1, 0 or 1 by major, then minor, then patch
Compare(a, b) ==
    IF a[1] # b[1] THEN (IF a[1] < b[1] THEN 0 - 1 ELSE 1)
    ELSE IF a[2] # b[2] THEN (IF a[2] < b[2] THEN 0 - 1 ELSE 1)
    ELSE IF a[3] # b[3] THEN (IF a[3] < b[3] THEN 0 - 1 ELSE 1)
    ELSE 0

\* DependencyManager.parse_version: strips every ^ and ~
parse_version(version) == VersionInfoParse(Replace(Replace(version, "^"), "~"))

\* the key "parse_version(v) or semver.VersionInfo(0)" of the max/min calls
VersionKey(v) == IF parse_version(v) = NoVersion THEN <<0, 0, 0>> ELSE parse_version(v)

\* semver.match(version, match_expr): "True", "False", or "ValueError" when it
\* raises.  An expression is one operator followed by one version; python-semver
\* 3 also takes a bare version as "==".  Anything after the version (a second
\* comparator) makes the version unparsable.
semver_match(version, match_expr) ==
    LET two == /\ Len(match_expr) >= 2
               /\ match_expr[2] = "="
               /\ match_expr[1] \in {">", "<", "=", "!"}
        one == Len(match_expr) >= 1 /\ match_expr[1] \in {">", "<"}
        bare == semver_major >= 3 /\ Len(match_expr) >= 1 /\ IsNum(match_expr[1])
        prefix == IF two THEN <<match_expr[1], "=">>
                  ELSE IF one THEN <<match_expr[1]>>
                  ELSE <<"=", "=">>
        match_version == IF two THEN SubSeq(match_expr, 3, Len(match_expr))
                         ELSE IF one THEN SubSeq(match_expr, 2, Len(match_expr))
                         ELSE match_expr
        possibilities == CASE prefix = <<">">> -> {1}
                           [] prefix = <<"<">> -> {0 - 1}
                           [] prefix = <<"=", "=">> -> {0}
                           [] prefix = <<"!", "=">> -> {0 - 1, 1}
                           [] prefix = <<">", "=">> -> {0, 1}
                           [] prefix = <<"<", "=">> -> {0 - 1, 0}
    IN  IF ~(two \/ one \/ bare) THEN "ValueError"
        ELSE IF VersionInfoParse(version) = NoVersion
                \/ VersionInfoParse(match_version) = NoVersion THEN "ValueError"
        ELSE IF Compare(VersionInfoParse(version), VersionInfoParse(match_version))
                    \in possibilities THEN "True"
        ELSE "False"

(***************************************************************************)
(* Package metadata and the Registry Client                                *)
(***************************************************************************)

\* A JSON body is [is_none, keys, versions]: keys are its top-level keys and
\* versions is body["versions"] in document order, each entry a version string
\* with its manifest's peerDependencies (<<[peer, required_version], ...>>).

\* get_package_info's None
None == [is_none |-> TRUE, keys |-> {}, versions |-> <<>>]

\* Python truthiness of Optional[Dict]: None and {} are falsy
Truthy(info) == ~info.is_none /\ info.keys # {}

\* list(info["versions"].keys())
VersionKeys(info) == [k \in 1..Len(info.versions) |-> info.versions[k].version]

\* v in info["versions"]
HasVersion(info, v) == \E k \in 1..Len(info.versions) : info.versions[k].version = v

\* info["versions"][v].get("peerDependencies", {})
PeerDependencies(info, v) ==
    LET k == CHOOSE k \in 1..Len(info.versions) : info.versions[k].version = v
    IN  info.versions[k].peerDependencies

\* self.cache_ttl = timedelta(hours=1), in clock ticks of half an hour
cache_ttl == 2

\* the HTTP response to GET {npm_registry}/{package_name}: "error" is a
\* network failure or an unparsable body, both raised inside the try
Statuses(package_name) ==
    IF registry[package_name].is_none THEN {"404", "error"}
    ELSE {"200", "404", "error"}

\* a cache write that drops the entries of the other packages
CachePut_clearing(package_name, data) ==
    [q \in {package_name} |-> [data |-> data, timestamp |-> now]]

\* the cache after self.cache[package_name] = {data, timestamp}
CachePut(package_name, data) ==
    [q \in DOMAIN cache \cup {package_name} |->
        IF q = package_name THEN [data |-> data, timestamp |-> now] ELSE cache[q]]

\* a cache check that serves every entry, whatever its age
CacheFresh_any_age(package_name) == package_name \in DOMAIN cache

\* a cache check that still serves an entry exactly one TTL old
CacheFresh_inclusive(package_name) ==
    /\ package_name \in DOMAIN cache
    /\ now - cache[package_name].timestamp <= cache_ttl

\* the cache check of get_package_info
CacheFresh(package_name) ==
    /\ package_name \in DOMAIN cache
    /\ now - cache[package_name].timestamp < cache_ttl

\* get_package_info(package_name) when the registry answers with `status`:
\* the value returned, the cache afterwards, and whether a GET was issued
get_package_info(package_name, status) ==
    IF CacheFresh(package_name)
    THEN [data |-> cache[package_name].data, cache |-> cache, net |-> FALSE]
    ELSE IF status = "200"
    THEN [data |-> registry[package_name],
          cache |-> CachePut(package_name, registry[package_name]),
          net |-> TRUE]
    ELSE [data |-> None, cache |-> cache, net |-> TRUE]

\* the GET counter after a call
CountCall(package_name, r) ==
    IF r.net THEN [net_calls EXCEPT ![package_name] = @ + 1] ELSE net_calls

(***************************************************************************)
(* Version Resolver                                                        *)
(***************************************************************************)

\* the versions of a list that semver.match accepts for a range; a version on
\* which it raises ValueError is skipped
MatchingVersions(available_versions, version_range) ==
    SelectSeq(available_versions,
              LAMBDA v : semver_match(v, version_range) = "True")

\* a maximum that returns the patch release after the first version
MaxVersion_invented(vs) ==
    VersionStr(VersionKey(vs[1])[1], VersionKey(vs[1])[2], VersionKey(vs[1])[3] + 1)

\* max(matching_versions, key=VersionKey): the first maximal element
MaxVersion(vs) ==
    LET k == CHOOSE k \in 1..Len(vs) :
                /\ \A m \in 1..Len(vs) : Compare(VersionKey(vs[m]), VersionKey(vs[k])) <= 0
                /\ \A m \in 1..(k - 1) : Compare(VersionKey(vs[m]), VersionKey(vs[k])) < 0
    IN  vs[k]

\* the semver range resolve_version builds for a ^ or ~ specifier
CaretRange(base_version) ==
    <<">", "=">> \o VersionStr(base_version[1], base_version[2], base_version[3])
        \o <<" ", "<">> \o VersionStr(base_version[1] + 1, 0, 0)

TildeRange(base_version) ==
    <<">", "=">> \o VersionStr(base_version[1], base_version[2], base_version[3])
        \o <<" ", "<">> \o VersionStr(base_version[1], base_version[2] + 1, 0)

\* resolve_version from line 52 on: package_info has a "versions" key
ResolveAgainst(info, version_spec) ==
    LET available_versions == VersionKeys(info)
        base_version == parse_version(version_spec)
        ranged == StartsWith(version_spec, "^") \/ StartsWith(version_spec, "~")
        version_range ==
            IF StartsWith(version_spec, "^") THEN CaretRange(base_version)
            ELSE IF StartsWith(version_spec, "~") THEN TildeRange(base_version)
            ELSE version_spec
        matching_versions == MatchingVersions(available_versions, version_range)
    IN  IF ranged /\ base_version = NoVersion THEN version_spec
        ELSE IF matching_versions # <<>>
        THEN <<"^">> \o MaxVersion(matching_versions)
        ELSE version_spec

\* a resolver that falls back to the bare version instead of the specifier
resolve_version_bare(info, version_spec) ==
    IF ~Truthy(info) \/ "versions" \notin info.keys
    THEN Replace(Replace(version_spec, "^"), "~")
    ELSE ResolveAgainst(info, version_spec)

\* resolve_version after its get_package_info call returned info
resolve_version(info, version_spec) ==
    IF ~Truthy(info) \/ "versions" \notin info.keys THEN version_spec
    ELSE ResolveAgainst(info, version_spec)

(***************************************************************************)
(* Warnings and the report                                                 *)
(***************************************************************************)

\* the warnings check_compatibility appends, by the f-string that builds them
ResolvedWarning(pkg, version, resolved_version) ==
    [kind |-> "resolved", pkg |-> pkg, peer |-> <<>>,
     text |-> <<"Updated", " ">> \o pkg \o <<" ", "from", " ">> \o version
              \o <<" ", "to", " ">> \o resolved_version
              \o <<" ", "for", " ", "better", " ", "compatibility">>]

ClosestWarning(pkg, version_without_caret) ==
    [kind |-> "closest", pkg |-> pkg, peer |-> <<>>,
     text |-> <<"Updated", " ">> \o pkg
              \o <<" ", "to", " ", "closest", " ", "available", " ", "version", ":", " ">>
              \o version_without_caret]

PeerWarning(pkg, peer, best_version, required_version) ==
    [kind |-> "peer", pkg |-> pkg, peer |-> peer,
     text |-> <<"Updated", " ">> \o peer \o <<" ", "to", " ">> \o best_version
              \o <<" ", "to", " ", "satisfy", " ", "peer", " ", "dependency", " ",
                   "requirement", " ", "from", " ">> \o pkg
              \o <<" ", "(">> \o required_version \o <<")">>]

\* a could-not-verify message worded without "compatibility"
UnverifiedWarning_reworded(pkg, peer) ==
    [kind |-> "unverified", pkg |-> pkg, peer |-> peer,
     text |-> <<"Could", " ", "not", " ", "check", " ">> \o pkg \o <<" ", "against", " ">> \o peer]

\* f"Could not verify compatibility between {pkg} and {peer}"
UnverifiedWarning(pkg, peer) ==
    [kind |-> "unverified", pkg |-> pkg, peer |-> peer,
     text |-> <<"Could", " ", "not", " ", "verify", " ", "compatibility", " ",
                "between", " ">> \o pkg \o <<" ", "and", " ">> \o peer]

\* a lower() that leaves every token as it is
Lower_identity(t) == t

\* str.lower() of a token
Lower(t) == CASE t = "Updated" -> "updated"
              [] t = "Could" -> "could"
              [] OTHER -> t

\* word in w.lower()
ContainsLower(w, word) == \E k \in 1..Len(w.text) : Lower(w.text[k]) = word

MonorepoRecommendation ==
    "Consider using a monorepo setup with tools like Turborepo for better dependency management"

TypesRecommendation ==
    "Add corresponding DefinitelyTyped packages (@types/*) for better TypeScript support"

\* a size test that already fires at 10 entries
ManyDependencies_from10(deps) == Cardinality(DOMAIN deps) >= 10

\* len(updated_deps) > 10
ManyDependencies(deps) == Cardinality(DOMAIN deps) > 10

\* a test for "@types/" anywhere in a name instead of at its start
typescript_deps_anywhere(deps) ==
    \E k \in 1..Len(deps) : \E n \in 1..Len(deps[k].pkg) : deps[k].pkg[n] = "@types/"

\* typescript_deps = any(pkg.startswith("@types/") for pkg in dependencies)
typescript_deps(deps) == \E k \in 1..Len(deps) : StartsWith(deps[k].pkg, "@types/")

\* "typescript" in dependencies
HasTypescript(deps) == \E k \in 1..Len(deps) : deps[k].pkg = <<"typescript">>

\* the report analyze_dependencies builds from check_compatibility's result
Report(deps, upd, warns) ==
    [updated_dependencies |-> upd,
     compatibility_warnings |-> SelectSeq(warns, LAMBDA w : ContainsLower(w, "compatibility")),
     version_updates |-> SelectSeq(warns, LAMBDA w : ContainsLower(w, "updated")),
     security_warnings |-> <<>>,
     recommendations |->
        (IF ManyDependencies(upd) THEN <<MonorepoRecommendation>> ELSE <<>>)
        \o (IF ~typescript_deps(deps) /\ HasTypescript(deps)
            THEN <<TypesRecommendation>> ELSE <<>>)]

\* the report before analyze_dependencies has returned
NoReport ==
    [updated_dependencies |-> <<>>, compatibility_warnings |-> <<>>,
     version_updates |-> <<>>, security_warnings |-> <<>>, recommendations |-> <<>>]

(***************************************************************************)
(* Compatibility Checker                                                   *)
(***************************************************************************)

\* an assignment that leaves only the entry it writes
Put_replacing(deps, pkg, version) == [q \in {pkg} |-> version]

\* updated_deps[pkg] = version
Put(deps, pkg, version) ==
    [q \in DOMAIN deps \cup {pkg} |-> IF q = pkg THEN version ELSE deps[q]]

\* min(matching_versions, key=|major(v) - major(version_without_caret)|):
\* the first element at the least distance
Abs(n) == IF n < 0 THEN 0 - n ELSE n

\* a substitute chosen as the latest matching version
ClosestVersion_latest(vs, version_without_caret) == MaxVersion(vs)

ClosestVersion(vs, version_without_caret) ==
    LET dist(v) == Abs(VersionKey(v)[1] - VersionKey(version_without_caret)[1])
        k == CHOOSE k \in 1..Len(vs) :
                /\ \A m \in 1..Len(vs) : dist(vs[k]) <= dist(vs[m])
                /\ \A m \in 1..(k - 1) : dist(vs[k]) < dist(vs[m])
    IN  vs[k]

\* a first pass that reports every package, changed or not
Pass1_always_warns(status) ==
    /\ pc = "pass1"
    /\ LET pkg == dependencies[i].pkg
           version == dependencies[i].spec
           r == get_package_info(pkg, status)
           resolved_version == resolve_version(r.data, version)
       IN  /\ cache' = r.cache
           /\ net_calls' = CountCall(pkg, r)
           /\ package_info' = r.data
           /\ updated_deps' = Put(updated_deps, pkg, resolved_version)
           /\ warnings' = Append(warnings, ResolvedWarning(pkg, version, resolved_version))
    /\ IF i < Len(dependencies)
       THEN i' = i + 1 /\ pc' = "pass1"
       ELSE i' = 1 /\ pc' = "pass2"
    /\ UNCHANGED <<semver_major, registry, dependencies, now, peer_deps, analysis, tasks, log>>

\* Pass 1, one iteration: resolve dependencies[i]
Pass1(status) ==
    /\ pc = "pass1"
    /\ LET pkg == dependencies[i].pkg
           version == dependencies[i].spec
           r == get_package_info(pkg, status)
           resolved_version == resolve_version(r.data, version)
       IN  /\ cache' = r.cache
           /\ net_calls' = CountCall(pkg, r)
           /\ package_info' = r.data
           /\ updated_deps' = Put(updated_deps, pkg, resolved_version)
           /\ warnings' = IF resolved_version # version
                          THEN Append(warnings, ResolvedWarning(pkg, version, resolved_version))
                          ELSE warnings
    /\ IF i < Len(dependencies)
       THEN i' = i + 1 /\ pc' = "pass1"
       ELSE i' = 1 /\ pc' = "pass2"
    /\ UNCHANGED <<semver_major, registry, dependencies, now, peer_deps, analysis, tasks, log>>

\* Pass 2, one iteration up to the peer loop: fetch the package, find its
\* version key, substitute the closest version or read its peerDependencies
Pass2(status) ==
    /\ pc = "pass2"
    /\ i <= Len(dependencies)
    /\ LET pkg == dependencies[i].pkg
           version == updated_deps[pkg]
           r == get_package_info(pkg, status)
           pkg_info == r.data
           version_without_caret == Replace(version, "^")
           matching_versions ==
               MatchingVersions(VersionKeys(pkg_info), <<">", "=">> \o version_without_caret)
           closest == ClosestVersion(matching_versions, version_without_caret)
       IN  /\ cache' = r.cache
           /\ net_calls' = CountCall(pkg, r)
           /\ package_info' = pkg_info
           /\ IF ~Truthy(pkg_info)
              THEN \* continue
                   /\ i' = i + 1 /\ pc' = "pass2"
                   /\ UNCHANGED <<updated_deps, warnings, peer_deps>>
              ELSE IF "versions" \notin pkg_info.keys
              THEN \* pkg_info["versions"] raises KeyError outside any try
                   /\ pc' = "raised"
                   /\ UNCHANGED <<i, updated_deps, warnings, peer_deps>>
              ELSE IF ~HasVersion(pkg_info, version_without_caret)
              THEN /\ i' = i + 1 /\ pc' = "pass2"
                   /\ peer_deps' = peer_deps
                   /\ IF matching_versions # <<>>
                      THEN /\ updated_deps' = Put(updated_deps, pkg, <<"^">> \o closest)
                           /\ warnings' = Append(warnings, ClosestWarning(pkg, closest))
                      ELSE UNCHANGED <<updated_deps, warnings>>
              ELSE /\ peer_deps' = PeerDependencies(pkg_info, version_without_caret)
                   /\ IF peer_deps' = <<>>
                      THEN i' = i + 1 /\ pc' = "pass2"
                      ELSE i' = i /\ pc' = "peers"
                   /\ UNCHANGED <<updated_deps, warnings>>
    /\ UNCHANGED <<semver_major, registry, dependencies, now, analysis, tasks, log>>

\* a peer loop that puts its update warning at the head of the list
Peer_prepending(status) ==
    /\ pc = "peers"
    /\ LET pkg == dependencies[i].pkg
           peer == Head(peer_deps).peer
           required_version == Head(peer_deps).required_version
           current_version == Replace(updated_deps[peer], "^")
           r == get_package_info(peer, status)
           peer_info == r.data
           matching_versions == MatchingVersions(VersionKeys(peer_info), required_version)
           best_version == MaxVersion(matching_versions)
       IN  IF peer \notin DOMAIN updated_deps
           THEN UNCHANGED <<cache, net_calls, package_info, updated_deps, warnings>>
           ELSE IF semver_match(current_version, required_version) = "ValueError"
           THEN /\ warnings' = Append(warnings, UnverifiedWarning(pkg, peer))
                /\ UNCHANGED <<cache, net_calls, package_info, updated_deps>>
           ELSE IF semver_match(current_version, required_version) = "True"
           THEN UNCHANGED <<cache, net_calls, package_info, updated_deps, warnings>>
           ELSE /\ cache' = r.cache
                /\ net_calls' = CountCall(peer, r)
                /\ package_info' = peer_info
                /\ IF ~Truthy(peer_info)
                   THEN UNCHANGED <<updated_deps, warnings>>
                   ELSE IF "versions" \notin peer_info.keys
                   THEN \* peer_info["versions"] raises KeyError inside the try
                        /\ warnings' = Append(warnings, UnverifiedWarning(pkg, peer))
                        /\ UNCHANGED updated_deps
                   ELSE IF matching_versions # <<>>
                   THEN /\ updated_deps' = Put(updated_deps, peer, <<"^">> \o best_version)
                        /\ warnings' = <<PeerWarning(pkg, peer, best_version, required_version)>>
                                           \o warnings
                   ELSE UNCHANGED <<updated_deps, warnings>>
    /\ peer_deps' = Tail(peer_deps)
    /\ IF peer_deps' = <<>>
       THEN i' = i + 1 /\ pc' = "pass2"
       ELSE i' = i /\ pc' = "peers"
    /\ UNCHANGED <<semver_major, registry, dependencies, now, analysis, tasks, log>>

\* a peer loop that swallows a failed comparison without a warning
Peer_silent(status) ==
    /\ pc = "peers"
    /\ LET pkg == dependencies[i].pkg
           peer == Head(peer_deps).peer
           required_version == Head(peer_deps).required_version
           current_version == Replace(updated_deps[peer], "^")
           r == get_package_info(peer, status)
           peer_info == r.data
           matching_versions == MatchingVersions(VersionKeys(peer_info), required_version)
           best_version == MaxVersion(matching_versions)
       IN  IF peer \notin DOMAIN updated_deps
           THEN UNCHANGED <<cache, net_calls, package_info, updated_deps, warnings>>
           ELSE IF semver_match(current_version, required_version) = "ValueError"
           THEN UNCHANGED <<cache, net_calls, package_info, updated_deps, warnings>>
           ELSE IF semver_match(current_version, required_version) = "True"
           THEN UNCHANGED <<cache, net_calls, package_info, updated_deps, warnings>>
           ELSE /\ cache' = r.cache
                /\ net_calls' = CountCall(peer, r)
                /\ package_info' = peer_info
                /\ IF ~Truthy(peer_info)
                   THEN UNCHANGED <<updated_deps, warnings>>
                   ELSE IF "versions" \notin peer_info.keys
                   THEN \* peer_info["versions"] raises KeyError inside the try
                        /\ warnings' = Append(warnings, UnverifiedWarning(pkg, peer))
                        /\ UNCHANGED updated_deps
                   ELSE IF matching_versions # <<>>
                   THEN /\ updated_deps' = Put(updated_deps, peer, <<"^">> \o best_version)
                        /\ warnings' = Append(warnings,
                               PeerWarning(pkg, peer, best_version, required_version))
                   ELSE UNCHANGED <<updated_deps, warnings>>
    /\ peer_deps' = Tail(peer_deps)
    /\ IF peer_deps' = <<>>
       THEN i' = i + 1 /\ pc' = "pass2"
       ELSE i' = i /\ pc' = "peers"
    /\ UNCHANGED <<semver_major, registry, dependencies, now, analysis, tasks, log>>

\* Pass 2, one iteration of the peer loop of dependencies[i]
Peer(status) ==
    /\ pc = "peers"
    /\ LET pkg == dependencies[i].pkg
           peer == Head(peer_deps).peer
           required_version == Head(peer_deps).required_version
           current_version == Replace(updated_deps[peer], "^")
           r == get_package_info(peer, status)
           peer_info == r.data
           matching_versions == MatchingVersions(VersionKeys(peer_info), required_version)
           best_version == MaxVersion(matching_versions)
       IN  IF peer \notin DOMAIN updated_deps
           THEN UNCHANGED <<cache, net_calls, package_info, updated_deps, warnings>>
           ELSE IF semver_match(current_version, required_version) = "ValueError"
           THEN /\ warnings' = Append(warnings, UnverifiedWarning(pkg, peer))
                /\ UNCHANGED <<cache, net_calls, package_info, updated_deps>>
           ELSE IF semver_match(current_version, required_version) = "True"
           THEN UNCHANGED <<cache, net_calls, package_info, updated_deps, warnings>>
           ELSE /\ cache' = r.cache
                /\ net_calls' = CountCall(peer, r)
                /\ package_info' = peer_info
                /\ IF ~Truthy(peer_info)
                   THEN UNCHANGED <<updated_deps, warnings>>
                   ELSE IF "versions" \notin peer_info.keys
                   THEN \* peer_info["versions"] raises KeyError inside the try
                        /\ warnings' = Append(warnings, UnverifiedWarning(pkg, peer))
                        /\ UNCHANGED updated_deps
                   ELSE IF matching_versions # <<>>
                   THEN /\ updated_deps' = Put(updated_deps, peer, <<"^">> \o best_version)
                        /\ warnings' = Append(warnings,
                               PeerWarning(pkg, peer, best_version, required_version))
                   ELSE UNCHANGED <<updated_deps, warnings>>
    /\ peer_deps' = Tail(peer_deps)
    /\ IF peer_deps' = <<>>
       THEN i' = i + 1 /\ pc' = "pass2"
       ELSE i' = i /\ pc' = "peers"
    /\ UNCHANGED <<semver_major, registry, dependencies, now, analysis, tasks, log>>

\* check_compatibility as a function of the map's order, for a run in which
\* every get_package_info call returns what the registry holds (None for a
\* package it does not know): Pass 1, then Pass 2 with its peer loop

\* Pass 1 over the first k entries of deps
RECURSIVE FirstPass(_, _)
FirstPass(deps, k) ==
    IF k = 0 THEN [q \in {} |-> <<>>]
    ELSE Put(FirstPass(deps, k - 1), deps[k].pkg,
             resolve_version(registry[deps[k].pkg], deps[k].spec))

\* the peer loop of one package over the peerDependencies still to process
RECURSIVE PeerLoop(_, _)
PeerLoop(peers, upd) ==
    IF peers = <<>> THEN upd
    ELSE LET peer == Head(peers).peer
             required_version == Head(peers).required_version
             current_version == Replace(upd[peer], "^")
             peer_info == registry[peer]
             matching_versions == MatchingVersions(VersionKeys(peer_info), required_version)
             overwritten ==
                 IF peer \notin DOMAIN upd THEN upd
                 ELSE IF semver_match(current_version, required_version) # "False" THEN upd
                 ELSE IF ~Truthy(peer_info) \/ "versions" \notin peer_info.keys THEN upd
                 ELSE IF matching_versions # <<>>
                 THEN Put(upd, peer, <<"^">> \o MaxVersion(matching_versions))
                 ELSE upd
         IN  PeerLoop(Tail(peers), overwritten)

\* Pass 2 from the k-th entry of deps on; raised when pkg_info["versions"]
\* raises KeyError
RECURSIVE SecondPass(_, _, _)
SecondPass(deps, k, upd) ==
    IF k > Len(deps) THEN [raised |-> FALSE, updated_deps |-> upd]
    ELSE LET pkg == deps[k].pkg
             pkg_info == registry[pkg]
             version_without_caret == Replace(upd[pkg], "^")
             matching_versions ==
                 MatchingVersions(VersionKeys(pkg_info), <<">", "=">> \o version_without_caret)
         IN  IF ~Truthy(pkg_info) THEN SecondPass(deps, k + 1, upd)
             ELSE IF "versions" \notin pkg_info.keys
             THEN [raised |-> TRUE, updated_deps |-> upd]
             ELSE IF ~HasVersion(pkg_info, version_without_caret)
             THEN SecondPass(deps, k + 1,
                     IF matching_versions # <<>>
                     THEN Put(upd, pkg, <<"^">> \o ClosestVersion(matching_versions,
                                                                  version_without_caret))
                     ELSE upd)
             ELSE SecondPass(deps, k + 1,
                     PeerLoop(PeerDependencies(pkg_info, version_without_caret), upd))

ResolvedMap(deps) == SecondPass(deps, 1, FirstPass(deps, Len(deps)))

(***************************************************************************)
(* Dependency Analyzer                                                     *)
(***************************************************************************)

\* check_compatibility returns and analyze_dependencies builds its report
Analyze ==
    /\ pc = "pass2"
    /\ i > Len(dependencies)
    /\ analysis' = Report(dependencies, updated_deps, warnings)
    /\ pc' = "done"
    /\ UNCHANGED <<semver_major, registry, dependencies, cache, now, net_calls, i,
                   updated_deps, warnings, package_info, peer_deps, tasks, log>>

(***************************************************************************)
(* The simple DependencyManager (stackmate/dependency_manager.py)          *)
(***************************************************************************)

\* the keys of known_good
known_good ==
    {<<<<"next">>, <<"react">>>>, <<<<"next">>, <<"react-dom">>>>,
     <<<<"react-dom">>, <<"react">>>>, <<<<"autoprefixer">>, <<"postcss">>>>,
     <<<<"@tailwindcss/typography">>, <<"tailwindcss">>>>,
     <<<<"@radix-ui/react-icons">>, <<"react">>>>, <<<<"lucide-react">>, <<"react">>>>}

\* any(name in pair for pair in known_good)
InKnownGood(name) == \E pair \in known_good : pair[1] = name \/ pair[2] = name

\* the loop over dependencies.items(), first k entries: the entry is recorded
\* before either known-good test, and both tests only skip to the next entry
RECURSIVE SimpleLoop(_, _)
SimpleLoop(deps, k) ==
    IF k = 0 THEN [q \in {} |-> <<>>]
    ELSE LET name == deps[k].pkg
             version == deps[k].spec
             updated_dependencies == Put(SimpleLoop(deps, k - 1), name, version)
         IN  IF InKnownGood(name) THEN updated_dependencies  \* continue
             ELSE updated_dependencies

\* a simple manager that records the bare version, without its ^
simple_analyze_pinned(deps) ==
    [updated_dependencies |->
        [q \in DOMAIN SimpleLoop(deps, Len(deps)) |->
            Replace(SimpleLoop(deps, Len(deps))[q], "^")],
     compatibility_warnings |-> <<>>]

\* the simple DependencyManager.analyze_dependencies
simple_analyze_dependencies(deps) ==
    [updated_dependencies |-> SimpleLoop(deps, Len(deps)),
     compatibility_warnings |-> <<>>]

(***************************************************************************)
(* get_package_info called directly, its await included                    *)
(***************************************************************************)

\* the callers sharing one DependencyManager
Tasks == {1, 2}

Idle == [pc |-> "idle", pkg |-> <<>>, at |-> 0, age |-> 0 - 1]

\* the age of the cache entry a call finds, -1 when there is none
EntryAge(package_name) ==
    IF package_name \in DOMAIN cache THEN now - cache[package_name].timestamp
    ELSE 0 - 1

\* get_package_info up to its await: the cache check, and on a miss the GET
Call(t, package_name) ==
    /\ pc = "calls"
    /\ tasks[t].pc = "idle"
    /\ Len(log) + Cardinality({u \in Tasks : tasks[u].pc = "awaiting"}) < MaxCalls
    /\ IF CacheFresh(package_name)
       THEN /\ log' = Append(log, [task |-> t, pkg |-> package_name, at |-> now,
                                   done |-> now, age |-> EntryAge(package_name),
                                   net |-> FALSE,
                                   data |-> cache[package_name].data])
            /\ package_info' = cache[package_name].data
            /\ UNCHANGED <<tasks, net_calls>>
       ELSE /\ tasks' = [tasks EXCEPT ![t] = [pc |-> "awaiting", pkg |-> package_name,
                                              at |-> now, age |-> EntryAge(package_name)]]
            /\ net_calls' = [net_calls EXCEPT ![package_name] = @ + 1]
            /\ UNCHANGED <<log, package_info>>
    /\ UNCHANGED <<semver_major, registry, dependencies, cache, now, pc, i,
                   updated_deps, warnings, peer_deps, analysis>>

\* a response handler that caches the absent result of a failed fetch
Respond_caching_failures(t, status) ==
    /\ pc = "calls"
    /\ tasks[t].pc = "awaiting"
    /\ LET package_name == tasks[t].pkg
           data == IF status = "200" THEN registry[package_name] ELSE None
       IN  /\ cache' = CachePut(package_name, data)
           /\ package_info' = data
           /\ log' = Append(log, [task |-> t, pkg |-> package_name, at |-> tasks[t].at,
                                  done |-> now, age |-> tasks[t].age,
                                  net |-> TRUE, data |-> data])
    /\ tasks' = [tasks EXCEPT ![t] = Idle]
    /\ UNCHANGED <<semver_major, registry, dependencies, now, net_calls, pc, i,
                   updated_deps, warnings, peer_deps, analysis>>

\* get_package_info from its await on: the response arrives
Respond(t, status) ==
    /\ pc = "calls"
    /\ tasks[t].pc = "awaiting"
    /\ LET package_name == tasks[t].pkg
           data == IF status = "200" THEN registry[package_name] ELSE None
       IN  /\ cache' = IF status = "200" THEN CachePut(package_name, data) ELSE cache
           /\ package_info' = data
           /\ log' = Append(log, [task |-> t, pkg |-> package_name, at |-> tasks[t].at,
                                  done |-> now, age |-> tasks[t].age,
                                  net |-> TRUE, data |-> data])
    /\ tasks' = [tasks EXCEPT ![t] = Idle]
    /\ UNCHANGED <<semver_major, registry, dependencies, now, net_calls, pc, i,
                   updated_deps, warnings, peer_deps, analysis>>

(***************************************************************************)
(* Inputs: dependency maps and registries                                  *)
(***************************************************************************)

\* the python-semver releases a build can have installed (setup.py pins none)
SemverReleases == {2, 3}

A == <<"a">>
B == <<"b">>
C == <<"c">>
NextJs == <<"next">>
React == <<"react">>
Typescript == <<"typescript">>
SpecialNames ==
    <<Typescript, <<"@types/", "node">>, <<"typescript", "-eslint">>, <<"x-", "@types/">>>>
Filler(k) == <<"lib", Str(k)>>

Packages ==
    {A, B, C, NextJs, React} \cup {SpecialNames[k] : k \in 1..Len(SpecialNames)}
           \cup {Filler(k) : k \in 1..MaxFill}

V(major, minor, patch) == VersionStr(major, minor, patch)

\* version specifiers of the single-package inputs: exact (listed or not),
\* caret, tilde, a comparator, and malformed ones
SpecStrings ==
    {V(1, 0, 0), V(1, 2, 0), <<"^">> \o V(1, 0, 0), <<"~">> \o V(1, 0, 0),
     <<">", "=">> \o V(1, 0, 0), <<"x">>, <<"^", "x">>, <<"~", "1", ".", "0">>}

\* version strings a registry may list, one of them malformed
RegistryVersions ==
    {V(1, 0, 0), V(1, 0, 5), V(1, 1, 0), V(2, 0, 0), V(3, 0, 0), <<"x">>}

\* the sequences without repetition over S, up to length n
RECURSIVE SeqsUpTo(_, _)
SeqsUpTo(S, n) ==
    IF n = 0 THEN {<<>>}
    ELSE LET shorter == SeqsUpTo(S, n - 1)
         IN  shorter \cup {Append(q, x) : q \in {t \in shorter : Len(t) = n - 1},
                                          x \in S}

NoRepeat(q) == \A m, n \in 1..Len(q) : m # n => q[m] # q[n]

VersionLists ==
    {q \in SeqsUpTo(RegistryVersions, MaxVersions) : NoRepeat(q)}
        \cup {<<V(1, 0, 0), V(1, 0, 5), V(1, 1, 0), V(2, 0, 0)>>}

\* a 200 body listing versions, every manifest with the same peerDependencies
Body(versions, peers) ==
    [is_none |-> FALSE, keys |-> {"name", "versions"},
     versions |-> [k \in 1..Len(versions) |->
                      [version |-> versions[k], peerDependencies |-> peers]]]

\* 200 bodies without a "versions" key: {"error": ...} and {}
NoVersionsBody == [is_none |-> FALSE, keys |-> {"error"}, versions |-> <<>>]
EmptyBody == [is_none |-> FALSE, keys |-> {}, versions |-> <<>>]

\* the registry knows no package
NoRegistry == [p \in Packages |-> None]

Entry(pkg, spec) == [pkg |-> pkg, spec |-> spec]

\* one package, any specifier, any registry listing without peers
SingleInputs ==
    {[dependencies |-> <<Entry(A, spec)>>,
      registry |-> [NoRegistry EXCEPT ![A] = body]] :
        spec \in SpecStrings,
        body \in {None, NoVersionsBody, EmptyBody}
                 \cup {Body(vs, <<>>) : vs \in VersionLists}}

\* specifiers and registries of the two-package inputs
PairSpecs == {V(1, 0, 0), <<"^">> \o V(1, 0, 0), <<"~">> \o V(1, 0, 0),
              <<">", "=">> \o V(1, 0, 0)}

PairLists == {<<V(1, 0, 0)>>, <<V(1, 0, 0), V(2, 1, 0), V(2, 0, 0)>>}

\* peer requirements: satisfiable, not a semver.match expression,
\* unsatisfiable, and one every listed version meets
Requirements == {<<">", "=">> \o V(2, 0, 0), <<"^">> \o V(2, 0, 0),
                 <<">", "=">> \o V(3, 0, 0), <<">", "=">> \o V(1, 0, 0)}

PairBodies(peer, reqs) ==
    {Body(vs, <<>>) : vs \in PairLists}
        \cup {Body(vs, <<[peer |-> peer, required_version |-> r]>>) :
                 vs \in PairLists, r \in reqs}

\* A and B in either order; A's manifests may require B
PairInputs ==
    {[dependencies |-> deps,
      registry |-> [NoRegistry EXCEPT ![A] = bodyA, ![B] = bodyB]] :
        deps \in {<<Entry(A, sa), Entry(B, sb)>> : sa \in PairSpecs, sb \in PairSpecs}
                 \cup {<<Entry(B, sb), Entry(A, sa)>> : sa \in PairSpecs, sb \in PairSpecs},
        bodyA \in {None, NoVersionsBody} \cup PairBodies(B, Requirements),
        bodyB \in {None} \cup PairBodies(A, {})
                  \cup {Body(<<V(1, 0, 0), V(2, 1, 0), V(2, 0, 0)>>,
                              <<[peer |-> A, required_version |-> <<">", "=">> \o V(2, 0, 0)]>>)}}

\* A followed by k packages the registry does not know
FillerInputs ==
    {[dependencies |-> <<Entry(A, <<"^">> \o V(1, 0, 0))>>
                        \o [k \in 1..n |-> Entry(Filler(k), V(1, 0, 0))],
      registry |-> [NoRegistry EXCEPT ![A] = body]] :
        n \in 0..MaxFill,
        body \in {None, NoVersionsBody, Body(<<V(1, 0, 0), V(1, 1, 0)>>, <<>>)}}

\* every subset of the special names, in a fixed order
NameInputs ==
    {[dependencies |-> SelectSeq([k \in 1..Len(SpecialNames) |->
                                     Entry(SpecialNames[k], V(1, 0, 0))],
                                 LAMBDA e : e.pkg \in chosen),
      registry |-> NoRegistry] :
        chosen \in SUBSET {SpecialNames[k] : k \in 1..Len(SpecialNames)}}

\* a peer requirement no version of B's current major satisfies any more
Below == <<"<">> \o V(2, 0, 0)

\* the orders of a three-package map
Orders3(x, y, z) ==
    {<<x, y, z>>, <<x, z, y>>, <<y, x, z>>, <<y, z, x>>, <<z, x, y>>, <<z, y, x>>}

\* A and C both require the peer B, in every order of the map
TripleInputs ==
    {[dependencies |-> deps,
      registry |-> [NoRegistry EXCEPT
                      ![A] = Body(<<V(1, 0, 0)>>, <<[peer |-> B, required_version |-> ra]>>),
                      ![C] = Body(<<V(1, 0, 0)>>, <<[peer |-> B, required_version |-> rc]>>),
                      ![B] = Body(<<V(1, 0, 0), V(2, 1, 0), V(2, 0, 0)>>, <<>>)]] :
        deps \in Orders3(Entry(A, V(1, 0, 0)), Entry(C, V(1, 0, 0)), Entry(B, V(1, 0, 0))),
        ra \in {<<">", "=">> \o V(2, 0, 0), Below},
        rc \in {<<">", "=">> \o V(2, 0, 0), Below, <<"^">> \o V(1, 0, 0)}}

\* A is pinned to a version its registry does not list, and the versions it
\* does list require the peer B
UnlistedInputs ==
    {[dependencies |-> deps,
      registry |-> [NoRegistry EXCEPT
                      ![A] = Body(vs, <<[peer |-> B, required_version |-> <<">", "=">> \o V(2, 0, 0)]>>),
                      ![B] = Body(<<V(1, 0, 0), V(2, 1, 0), V(2, 0, 0)>>, <<>>)]] :
        deps \in {<<Entry(A, sa), Entry(B, V(1, 0, 0))>> :
                    sa \in {V(1, 2, 0), <<"^">> \o V(1, 2, 0)}},
        vs \in {<<V(1, 0, 0), V(3, 0, 0), V(2, 0, 0)>>, <<V(1, 0, 0)>>}}

\* maps with packages of the simple manager's known-good table
KnownGoodInputs ==
    {[dependencies |-> deps,
      registry |-> [NoRegistry EXCEPT ![React] = body]] :
        deps \in {<<Entry(NextJs, <<"^">> \o V(1, 0, 0)), Entry(React, V(1, 0, 0))>>,
                  <<Entry(React, <<"^">> \o V(1, 0, 0)), Entry(A, <<"~">> \o V(1, 0, 0))>>,
                  <<Entry(NextJs, V(1, 0, 0))>>},
        body \in {None, Body(<<V(1, 0, 0), V(1, 1, 0)>>, <<>>)}}

\* A's manifest declares two peers, B and then C; B may be missing from the map
TwoPeerInputs ==
    {[dependencies |-> deps,
      registry |-> [NoRegistry EXCEPT
                      ![A] = Body(<<V(1, 0, 0)>>,
                                  <<[peer |-> B, required_version |-> rb],
                                    [peer |-> C, required_version |-> rc]>>),
                      ![B] = Body(<<V(1, 0, 0), V(2, 1, 0), V(2, 0, 0)>>, <<>>),
                      ![C] = Body(<<V(1, 0, 0), V(2, 1, 0), V(2, 0, 0)>>, <<>>)]] :
        deps \in {<<Entry(A, V(1, 0, 0)), Entry(B, V(1, 0, 0)), Entry(C, V(1, 0, 0))>>,
                  <<Entry(A, V(1, 0, 0)), Entry(C, V(1, 0, 0))>>},
        rb \in Requirements,
        rc \in {<<">", "=">> \o V(2, 0, 0), <<"^">> \o V(2, 0, 0)}}

Inputs ==
    SingleInputs \cup PairInputs \cup FillerInputs \cup NameInputs
        \cup TripleInputs \cup UnlistedInputs \cup KnownGoodInputs
        \cup TwoPeerInputs

(***************************************************************************)
(* The state machine                                                       *)
(***************************************************************************)

EmptyMap == [q \in {} |-> <<>>]

Init ==
    /\ semver_major \in SemverReleases
    /\ \E input \in Inputs :
          /\ dependencies = input.dependencies
          /\ registry = input.registry
    /\ cache = EmptyMap
    /\ now = 0
    /\ net_calls = [p \in Packages |-> 0]
    /\ pc = IF dependencies = <<>> THEN "pass2" ELSE "pass1"
    /\ i = 1
    /\ updated_deps = EmptyMap
    /\ warnings = <<>>
    /\ package_info = None
    /\ peer_deps = <<>>
    /\ analysis = NoReport
    /\ tasks = [t \in Tasks |-> Idle]
    /\ log = <<>>

\* time passes while a call is awaited; analyze_dependencies only ever reads
\* the age of a cache entry, so there the clock is followed while some entry
\* is still fresh
Tick ==
    /\ now < MaxTime
    /\ \/ pc = "calls"
       \/ /\ pc \in {"pass1", "pass2", "peers"}
          /\ \E p \in DOMAIN cache : CacheFresh(p)
    /\ now' = now + 1
    /\ UNCHANGED <<semver_major, registry, dependencies, cache, net_calls, pc, i,
                   updated_deps, warnings, package_info, peer_deps, analysis,
                   tasks, log>>

Next ==
    \/ \E status \in {"200", "404", "error"} :
          /\ pc = "pass1"
          /\ status \in Statuses(dependencies[i].pkg)
          /\ Pass1(status)
    \/ \E status \in {"200", "404", "error"} :
          /\ pc = "pass2" /\ i <= Len(dependencies)
          /\ status \in Statuses(dependencies[i].pkg)
          /\ Pass2(status)
    \/ \E status \in {"200", "404", "error"} :
          /\ pc = "peers"
          /\ status \in Statuses(Head(peer_deps).peer)
          /\ Peer(status)
    \/ Analyze
    \/ Tick

Spec == Init /\ [][Next]_vars

\* every awaited registry call returns, with a response or a failure: a step
\* of the run that can be taken is eventually taken
SpecLive == Init /\ [][Next]_vars /\ WF_vars(Next)

\* direct callers of get_package_info on one DependencyManager
InitCache ==
    /\ semver_major = 3
    /\ registry = [NoRegistry EXCEPT ![A] = Body(<<V(1, 0, 0)>>, <<>>),
                                     ![B] = Body(<<V(2, 0, 0)>>, <<>>)]
    /\ dependencies = <<>>
    /\ cache = EmptyMap
    /\ now = 0
    /\ net_calls = [p \in Packages |-> 0]
    /\ pc = "calls"
    /\ i = 1
    /\ updated_deps = EmptyMap
    /\ warnings = <<>>
    /\ package_info = None
    /\ peer_deps = <<>>
    /\ analysis = NoReport
    /\ tasks = [t \in Tasks |-> Idle]
    /\ log = <<>>

NextCache ==
    \/ \E t \in Tasks, p \in {A, B} : Call(t, p)
    \/ \E t \in Tasks, status \in {"200", "404", "error"} :
          /\ tasks[t].pc = "awaiting"
          /\ status \in Statuses(tasks[t].pkg)
          /\ Respond(t, status)
    \/ Tick

SpecCache == InitCache /\ [][NextCache]_vars

(***************************************************************************)
(* Properties                                                              *)
(***************************************************************************)

\* what the specification says a version range means, independently of
\* semver.match: versions are <<major, minor, patch>>
InCaretRange(v, base) == Compare(v, base) >= 0 /\ Compare(v, <<base[1] + 1, 0, 0>>) < 0
InTildeRange(v, base) == Compare(v, base) >= 0 /\ Compare(v, <<base[1], base[2] + 1, 0>>) < 0

\* whether version v satisfies a requirement: a comparator, a caret or tilde
\* range, or an exact version
Satisfies(v, requirement) ==
    LET rest(n) == VersionInfoParse(SubSeq(requirement, n + 1, Len(requirement)))
    IN  IF StartsWith(requirement, ">") /\ Len(requirement) >= 2 /\ requirement[2] = "="
        THEN rest(2) # NoVersion /\ Compare(v, rest(2)) >= 0
        ELSE IF StartsWith(requirement, "<")
        THEN rest(1) # NoVersion /\ Compare(v, rest(1)) < 0
        ELSE IF StartsWith(requirement, "^")
        THEN rest(1) # NoVersion /\ InCaretRange(v, rest(1))
        ELSE IF StartsWith(requirement, "~")
        THEN rest(1) # NoVersion /\ InTildeRange(v, rest(1))
        ELSE rest(0) # NoVersion /\ Compare(v, rest(0)) = 0

\* the well-formed versions a body lists
Listed(info) ==
    {VersionInfoParse(info.versions[k].version) : k \in 1..Len(info.versions)}
        \ {NoVersion}

\* the greatest version of a non-empty set
Greatest(S) == CHOOSE v \in S : \A w \in S : Compare(w, v) <= 0

\* the index of the package Pass 1 resolved last while package_info still
\* holds what that resolution fetched, 0 otherwise
LastResolved ==
    IF pc = "pass1" THEN i - 1
    ELSE IF pc = "pass2" /\ i = 1 THEN Len(dependencies)
    ELSE 0

\* the input map as a function
InputMap ==
    [p \in {dependencies[k].pkg : k \in 1..Len(dependencies)} |->
        dependencies[CHOOSE k \in 1..Len(dependencies) : dependencies[k].pkg = p].spec]

\* C1: fail-open. Whenever the get_package_info call of resolve_version
\* returned None or metadata without a "versions" key, the resolved entry is
\* the input specifier itself, whatever the specifier.
C1_FailOpen ==
    (/\ LastResolved > 0
     /\ package_info.is_none \/ "versions" \notin package_info.keys)
        => updated_deps[dependencies[LastResolved].pkg] = dependencies[LastResolved].spec

\* a caret specifier was resolved while the registry, which lists versions,
\* answered with a failure
C1_Witness ==
    /\ LastResolved > 0
    /\ package_info.is_none
    /\ registry[dependencies[LastResolved].pkg].versions # <<>>
    /\ StartsWith(dependencies[LastResolved].spec, "^")
    /\ updated_deps[dependencies[LastResolved].pkg] = dependencies[LastResolved].spec

\* C2: analyze_dependencies never propagates an exception, whatever the
\* registry answers in either pass.
C2_NeverRaises == pc # "raised"

\* the listed versions inside the range of the specifier Pass 1 resolved last
LastBase == VersionInfoParse(Tail(dependencies[LastResolved].spec))

LastHasVersions ==
    /\ LastResolved > 0
    /\ LastBase # NoVersion
    /\ Truthy(package_info)
    /\ "versions" \in package_info.keys

\* C3: caret resolution. A specifier ^X.Y.Z resolves to "^" followed by the
\* greatest listed version v with X.Y.Z <= v < (X+1).0.0 whenever one exists.
C3_CaretResolution ==
    LET S == {v \in Listed(package_info) : InCaretRange(v, LastBase)}
    IN  (/\ LastHasVersions
         /\ StartsWith(dependencies[LastResolved].spec, "^")
         /\ S # {})
            => updated_deps[dependencies[LastResolved].pkg]
                   = <<"^">> \o VersionStr(Greatest(S)[1], Greatest(S)[2], Greatest(S)[3])

\* C4: tilde resolution. A specifier ~X.Y.Z resolves to "^" followed by the
\* greatest listed version v with X.Y.Z <= v < X.(Y+1).0 whenever one exists.
C4_TildeResolution ==
    LET S == {v \in Listed(package_info) : InTildeRange(v, LastBase)}
    IN  (/\ LastHasVersions
         /\ StartsWith(dependencies[LastResolved].spec, "~")
         /\ S # {})
            => updated_deps[dependencies[LastResolved].pkg]
                   = <<"^">> \o VersionStr(Greatest(S)[1], Greatest(S)[2], Greatest(S)[3])

\* every package of the input is pinned to an exact version its registry lists
AllPinnedAndListed ==
    \A k \in 1..Len(dependencies) :
        /\ VersionInfoParse(dependencies[k].spec) # NoVersion
        /\ HasVersion(registry[dependencies[k].pkg], dependencies[k].spec)

\* every peer requirement among the pinned versions is met by the pinned peer
AllPeersSatisfied ==
    \A k \in 1..Len(dependencies) :
        LET peers == PeerDependencies(registry[dependencies[k].pkg], dependencies[k].spec)
        IN  \A n \in 1..Len(peers) :
                peers[n].peer \in DOMAIN InputMap
                    => Satisfies(VersionInfoParse(InputMap[peers[n].peer]),
                                 peers[n].required_version)

\* C5: no-op resolution. With every package pinned to a listed exact version
\* and every peer requirement already met, check_compatibility returns the
\* input map and no warning.
C5_NoOpResolution ==
    (pc = "done" /\ AllPinnedAndListed /\ AllPeersSatisfied)
        => updated_deps = InputMap /\ warnings = <<>>

\* C6: peer reconciliation. When the peer loop reaches a requirement R on a
\* peer B of the map whose resolved version does not satisfy R, and B's
\* metadata (at hand in the cache) lists a version satisfying R, the step
\* sets B to "^" + the greatest such version and appends a warning naming the
\* package and B.
C6_PeerReconciliation ==
    [][LET pkg == dependencies[i].pkg
           peer == Head(peer_deps).peer
           R == Head(peer_deps).required_version
           S == {v \in Listed(cache[peer].data) : Satisfies(v, R)}
       IN  (/\ pc = "peers"
            /\ peer_deps' # peer_deps
            /\ peer \in DOMAIN updated_deps
            /\ parse_version(updated_deps[peer]) # NoVersion
            /\ ~Satisfies(parse_version(updated_deps[peer]), R)
            /\ CacheFresh(peer)
            /\ S # {})
               => /\ updated_deps'[peer]
                       = <<"^">> \o VersionStr(Greatest(S)[1], Greatest(S)[2], Greatest(S)[3])
                  /\ Len(warnings') = Len(warnings) + 1
                  /\ warnings'[Len(warnings')].pkg = pkg
                  /\ warnings'[Len(warnings')].peer = peer]_vars

\* two calls of one caller for the same package, the earlier one first
SameCaller(j, k) ==
    /\ j < k
    /\ log[j].task = log[k].task
    /\ log[j].pkg = log[k].pkg

\* a call that found an entry at least one TTL old issued a GET
ExpiredEntryRefetched ==
    \A k \in 1..Len(log) : log[k].age >= cache_ttl => log[k].net

\* C7 as stated: the first two calls for a package, less than one TTL apart,
\* issue exactly one GET between them, and a call that finds an entry at least
\* one TTL old issues a GET.
C7_TtlBoundary_AsStated ==
    /\ \A j, k \in 1..Len(log) :
          (/\ SameCaller(j, k)
           /\ \A m \in 1..(k - 1) : log[m].pkg = log[k].pkg => m = j
           /\ log[k].at - log[j].at < cache_ttl)
              => (log[j].net /\ ~log[k].net)
    /\ ExpiredEntryRefetched

\* C7, amended: two calls of one caller for the same package less than one
\* TTL apart, the first of which fetched the metadata with a 200 response,
\* issue exactly one GET between them (the second is served from the cache);
\* a call that finds an entry at least one TTL old issues a GET.
C7_TtlBoundary ==
    /\ \A j, k \in 1..Len(log) :
          (/\ SameCaller(j, k)
           /\ log[j].net /\ ~log[j].data.is_none
           /\ log[k].at - log[j].at < cache_ttl)
              => ~log[k].net
    /\ ExpiredEntryRefetched

\* one caller fetched a package, was served from the cache a tick later, and
\* fetched again once the entry was one TTL old
C7_Witness ==
    \E j, k, m \in 1..Len(log) :
        /\ SameCaller(j, k) /\ SameCaller(k, m)
        /\ log[j].net /\ ~log[j].data.is_none
        /\ ~log[k].net /\ log[k].age = cache_ttl - 1
        /\ log[m].net /\ log[m].age = cache_ttl

\* the package of the only warning, when that is a Pass 1 resolution warning
\* and the version it resolved to declares no peerDependencies
OnlyBump ==
    /\ pc = "done"
    /\ Len(warnings) = 1
    /\ warnings[1].kind = "resolved"
    /\ LET p == warnings[1].pkg
           v == Replace(updated_deps[p], "^")
       IN  HasVersion(registry[p], v) => PeerDependencies(registry[p], v) = <<>>

\* C8: when the only change is a Pass 1 version bump of one package without
\* peerDependencies, the report has exactly one entry in version_updates, for
\* that package, and no compatibility warning.
C8_SingleBumpReport ==
    OnlyBump
        => /\ Len(analysis.version_updates) = 1
           /\ analysis.version_updates[1].pkg = warnings[1].pkg
           /\ analysis.compatibility_warnings = <<>>

Recommended(text) ==
    \E k \in 1..Len(analysis.recommendations) : analysis.recommendations[k] = text

\* C9: the report recommends monorepo tooling if and only if the input map has
\* more than 10 entries, whatever the registry answered.
C9_MonorepoTrigger ==
    pc = "done" => (Recommended(MonorepoRecommendation) <=> Len(dependencies) > 10)

\* a report for an 11-package map, with the recommendation
C9_Witness ==
    /\ pc = "done"
    /\ Len(dependencies) = 11
    /\ Recommended(MonorepoRecommendation)

\* C10: the report recommends type declarations if and only if the input map
\* has the key "typescript" and no key that starts with "@types/".
C10_TypesTrigger ==
    pc = "done"
        => (Recommended(TypesRecommendation)
              <=> /\ <<"typescript">> \in DOMAIN InputMap
                  /\ \A p \in DOMAIN InputMap : p[1] # "@types/")

\* a report with the recommendation for a map that has "typescript" and a key
\* with "@types/" inside it, but not at its start
C10_Witness ==
    /\ pc = "done"
    /\ Recommended(TypesRecommendation)
    /\ <<"x-", "@types/">> \in DOMAIN InputMap

\* every get_package_info call of the run returned what the registry holds:
\* a package the registry knows was fetched once and served from the cache
\* from then on
Faultless ==
    \A k \in 1..Len(dependencies) :
        LET p == dependencies[k].pkg
        IN  ~registry[p].is_none => (net_calls[p] = 1 /\ p \in DOMAIN cache)

\* the map with the entries at positions m and n exchanged
Swap(deps, m, n) ==
    [k \in 1..Len(deps) |-> IF k = m THEN deps[n] ELSE IF k = n THEN deps[m] ELSE deps[k]]

\* C11: order irrelevance. With every fetch answered from the same registry,
\* the resolved map check_compatibility returns is the one it returns for the
\* same (package, specifier) pairs in any other iteration order (every order
\* is reached by exchanging two entries at a time).
C11_OrderIrrelevance ==
    (pc = "done" /\ Faultless)
        => \A m, n \in 1..Len(dependencies) :
              ResolvedMap(Swap(dependencies, m, n))
                  = [raised |-> FALSE, updated_deps |-> updated_deps]

\* no fetch of the run succeeded: nothing was ever cached
Unavailable == cache = EmptyMap

\* C12: termination. When every registry call returns, analyze_dependencies
\* eventually returns its report; and when no fetch succeeds it has by then
\* issued at most two GETs for each package of the map (one in Pass 1, one in
\* Pass 2) and none for any other package.
C12_Termination ==
    /\ <>(pc = "done")
    /\ []((pc = "done" /\ Unavailable)
            => \A p \in Packages :
                  net_calls[p] <= (IF p \in DOMAIN InputMap THEN 2 ELSE 0))

\* C13: pass ordering. While Pass 1 runs, a package it has not reached has
\* not been fetched and one it has resolved has been fetched at most once, no
\* peer list has been read and every warning is a resolution warning; Pass 2
\* starts with every package resolved; and in the warning list no resolution
\* warning comes after a closest-version, peer or could-not-verify warning.
C13_PassOrdering ==
    /\ pc = "pass1"
          => /\ \A k \in 1..Len(dependencies) :
                   net_calls[dependencies[k].pkg] <= (IF k < i THEN 1 ELSE 0)
             /\ peer_deps = <<>>
             /\ \A k \in 1..Len(warnings) : warnings[k].kind = "resolved"
    /\ pc \in {"pass2", "peers", "raised", "done"}
          => DOMAIN updated_deps = DOMAIN InputMap
    /\ \A j, k \in 1..Len(warnings) :
          (j < k /\ warnings[k].kind = "resolved") => warnings[j].kind = "resolved"

\* a returned warning list in which a peer warning follows a resolution warning
C13_Witness ==
    /\ pc = "done"
    /\ \E j, k \in 1..Len(warnings) :
          /\ j < k
          /\ warnings[j].kind = "resolved"
          /\ warnings[k].kind = "peer"

\* C14: degenerate substitute. The simple manager returns the input map and
\* no compatibility warning for every input, and a run of the registry-backed
\* analyze_dependencies in which no fetch succeeded returns the same
\* updated_dependencies and the same compatibility_warnings.
C14_DegenerateSubstitute ==
    LET simple == simple_analyze_dependencies(dependencies)
    IN  /\ simple.updated_dependencies = InputMap
        /\ simple.compatibility_warnings = <<>>
        /\ (pc = "done" /\ Unavailable)
              => /\ analysis.updated_dependencies = simple.updated_dependencies
                 /\ analysis.compatibility_warnings = simple.compatibility_warnings

\* a report for a map with a caret specifier and a known-good package whose
\* registry lists versions, every fetch having failed
C14_Witness ==
    /\ pc = "done"
    /\ Unavailable
    /\ \E k \in 1..Len(dependencies) :
          /\ InKnownGood(dependencies[k].pkg)
          /\ StartsWith(dependencies[k].spec, "^")
          /\ registry[dependencies[k].pkg].versions # <<>>
    /\ analysis.updated_dependencies = InputMap

\* the positions of the warning list that hold warning w
Occurrences(w) == {n \in 1..Len(warnings) : warnings[n] = w}

\* C15: up to the end of Pass 1, the warning list holds exactly one warning
\* "Updated {pkg} from {old} to {new} ..." for every package resolved so far
\* whose resolved specifier differs from its input specifier, none for a
\* package whose specifier is unchanged, and nothing else.
C15_ResolutionWarnings ==
    LET changed == {k \in 1..LastResolved :
                      updated_deps[dependencies[k].pkg] # dependencies[k].spec}
    IN  LastResolved > 0
            => /\ \A k \in 1..LastResolved :
                     LET pkg == dependencies[k].pkg
                         w == ResolvedWarning(pkg, dependencies[k].spec, updated_deps[pkg])
                     IN  /\ Cardinality(Occurrences(w)) = (IF k \in changed THEN 1 ELSE 0)
                         /\ \A n \in 1..Len(warnings) :
                                warnings[n].pkg = pkg => n \in Occurrences(w)
               /\ Len(warnings) = Cardinality(changed)

\* Pass 1 has ended for a two-package map: one specifier was changed and
\* reported, the other was left alone
C15_Witness ==
    /\ pc = "pass2" /\ i = 1
    /\ Len(dependencies) = 2
    /\ Len(warnings) = 1
    /\ \E k \in 1..2 : updated_deps[dependencies[k].pkg] = dependencies[k].spec

\* C16: exact pins are a no-op. When resolve_version is given a specifier with
\* neither a ^ nor a ~ prefix and the metadata it fetched lists that very
\* version, it returns the specifier unchanged.
C16_ExactPinNoOp ==
    (/\ LastResolved > 0
     /\ ~StartsWith(dependencies[LastResolved].spec, "^")
     /\ ~StartsWith(dependencies[LastResolved].spec, "~")
     /\ HasVersion(package_info, dependencies[LastResolved].spec))
        => updated_deps[dependencies[LastResolved].pkg] = dependencies[LastResolved].spec

\* the peerDependencies of the version a package of the map is resolved to
PeersOf(p) ==
    LET key == Replace(Replace(updated_deps[p], "^"), "~")
    IN  IF HasVersion(registry[p], key) THEN PeerDependencies(registry[p], key) ELSE <<>>

\* the positions of the map whose package declares a requirement on peer
Declarers(peer) ==
    {k \in 1..Len(dependencies) :
        \E n \in 1..Len(PeersOf(dependencies[k].pkg)) :
            PeersOf(dependencies[k].pkg)[n].peer = peer}

\* the requirement the package at position k declares on peer
RequirementOn(k, peer) ==
    LET peers == PeersOf(dependencies[k].pkg)
    IN  peers[CHOOSE n \in 1..Len(peers) : peers[n].peer = peer].required_version

\* the listed versions of peer that satisfy requirement R
Satisfying(peer, R) == {v \in Listed(registry[peer]) : Satisfies(v, R)}

\* the package at position k overwrote peer in Pass 2
Overwrote(k, peer) ==
    \E n \in 1..Len(warnings) :
        /\ warnings[n].kind = "peer"
        /\ warnings[n].pkg = dependencies[k].pkg
        /\ warnings[n].peer = peer

Max(S) == CHOOSE x \in S : \A y \in S : y <= x

\* C17: last satisfying overwrite wins. In a returned map, when two or more
\* packages declare a requirement on the same peer B of the map, every one
\* but the last in iteration order overwrote B, and the version the one
\* before the last left does not satisfy the last one's requirement R while
\* the registry (every fetch having succeeded) lists a version that does, the
\* entry of B is "^" + the greatest listed version satisfying R.
C17_LastOverwriteWins ==
    (pc = "done" /\ Faultless)
        => \A peer \in DOMAIN InputMap :
              LET D == Declarers(peer)
                  last == Max(D)
                  before == Max(D \ {last})
                  R == RequirementOn(last, peer)
                  S == Satisfying(peer, R)
                  left == Greatest(Satisfying(peer, RequirementOn(before, peer)))
              IN  (/\ Cardinality(D) >= 2
                   /\ \A k \in D \ {last} : Overwrote(k, peer)
                   /\ S # {}
                   /\ ~Satisfies(left, R))
                      => updated_deps[peer]
                             = <<"^">> \o VersionStr(Greatest(S)[1], Greatest(S)[2],
                                                      Greatest(S)[3])

\* a Pass 2 step that adopted a closest-version substitute for its package
AdoptsSubstitute ==
    /\ pc = "pass2"
    /\ i <= Len(dependencies)
    /\ Len(warnings') = Len(warnings) + 1
    /\ warnings'[Len(warnings')].kind = "closest"

\* C18: closest-version substitute then peers. A Pass 2 step that adopts a
\* substitute v for its package sets the entry to "^" + v, appends "Updated
\* {package} to closest available version: {v}", and goes on to the peer
\* dependencies of v's manifest: the peer loop of the package runs over them.
C18_SubstituteThenPeers ==
    [][AdoptsSubstitute
          => LET pkg == dependencies[i].pkg
                 v == Replace(updated_deps'[pkg], "^")
             IN  /\ updated_deps'[pkg] = <<"^">> \o v
                 /\ warnings'[Len(warnings')] = ClosestWarning(pkg, v)
                 /\ HasVersion(package_info', v)
                 /\ peer_deps' = PeerDependencies(package_info', v)
                 /\ peer_deps' # <<>> => (pc' = "peers" /\ i' = i)]_vars

\* C19: closest-version selection. The substitute v a Pass 2 step adopts for
\* a missing version key is a version the fetched metadata lists, v >= key,
\* and no listed version >= key has a major number closer to the key's.
C19_ClosestSelection ==
    [][AdoptsSubstitute
          => LET pkg == dependencies[i].pkg
                 key == parse_version(updated_deps[pkg])
                 v == VersionInfoParse(Replace(updated_deps'[pkg], "^"))
             IN  /\ key # NoVersion
                 /\ v \in Listed(package_info')
                 /\ Compare(v, key) >= 0
                 /\ \A w \in Listed(package_info') :
                        Compare(w, key) >= 0 => Abs(v[1] - key[1]) <= Abs(w[1] - key[1])]_vars

\* 2.0.0 was adopted for a key of major 1 although 3.0.0 is listed as well
C19_Witness ==
    /\ pc = "pass2"
    /\ Len(warnings) >= 1
    /\ warnings[Len(warnings)].kind = "closest"
    /\ LET p == warnings[Len(warnings)].pkg
       IN  /\ updated_deps[p] = <<"^">> \o V(2, 0, 0)
           /\ parse_version(InputMap[p])[1] = 1
           /\ HasVersion(registry[p], V(3, 0, 0))

\* a specifier without its leading ^ or ~
StripPrefix(version) ==
    IF StartsWith(version, "^") \/ StartsWith(version, "~") THEN Tail(version)
    ELSE version

\* C20: prefix stripping in Pass 2. A Pass 2 step whose package is resolved
\* to ^X.Y.Z or ~X.Y.Z, with X.Y.Z listed by the metadata it fetched, reads
\* the peer dependencies of X.Y.Z's manifest; and a peer loop step whose peer
\* is at ~X.Y.Z compares X.Y.Z with the requirement, so that a requirement
\* X.Y.Z meets leaves the map and the warnings as they are.
C20_PrefixStripping ==
    [][/\ (/\ pc = "pass2"
            /\ i <= Len(dependencies)
            /\ (i' # i \/ pc' # pc)
            /\ "versions" \in package_info'.keys
            /\ HasVersion(package_info', StripPrefix(updated_deps[dependencies[i].pkg])))
           => peer_deps' = PeerDependencies(package_info',
                                            StripPrefix(updated_deps[dependencies[i].pkg]))
       /\ (/\ pc = "peers"
            /\ peer_deps' # peer_deps
            /\ Head(peer_deps).peer \in DOMAIN updated_deps
            /\ StartsWith(updated_deps[Head(peer_deps).peer], "~")
            /\ semver_match(StripPrefix(updated_deps[Head(peer_deps).peer]),
                            Head(peer_deps).required_version) = "True")
           => (warnings' = warnings /\ updated_deps' = updated_deps)]_vars

\* a step of the peer loop, for a peer that is in the resolved map
PeerStep ==
    /\ pc = "peers"
    /\ peer_deps' # peer_deps
    /\ Head(peer_deps).peer \in DOMAIN updated_deps

\* the text "Could not verify compatibility between {package} and {peer}"
CouldNotVerify(pkg, peer) ==
    <<"Could", " ", "not", " ", "verify", " ", "compatibility", " ", "between", " ">>
        \o pkg \o <<" ", "and", " ">> \o peer

\* C21: comparison failure is contained. When semver.match raises on a peer's
\* current version and the required specifier, the step appends exactly the
\* warning "Could not verify compatibility between {package} and {peer}",
\* changes no entry of the resolved map, and the loop goes on with the next
\* peer of the package (or, after the last one, with the next package).
C21_ComparisonContained ==
    [][LET pkg == dependencies[i].pkg
           peer == Head(peer_deps).peer
           current_version == Replace(updated_deps[peer], "^")
       IN  (/\ PeerStep
            /\ semver_match(current_version, Head(peer_deps).required_version)
                   = "ValueError")
               => /\ Len(warnings') = Len(warnings) + 1
                  /\ SubSeq(warnings', 1, Len(warnings)) = warnings
                  /\ warnings'[Len(warnings')].text = CouldNotVerify(pkg, peer)
                  /\ updated_deps' = updated_deps
                  /\ peer_deps' = Tail(peer_deps)
                  /\ IF Tail(peer_deps) # <<>>
                     THEN pc' = "peers" /\ i' = i
                     ELSE pc' = "pass2" /\ i' = i + 1]_vars

\* the comparison for the first of two peers raised, its warning is the
\* last one, and the second peer is about to be processed
C21_Witness ==
    /\ pc = "peers"
    /\ Len(peer_deps) = 1
    /\ Len(PeerDependencies(registry[dependencies[i].pkg], V(1, 0, 0))) = 2
    /\ Len(warnings) >= 1
    /\ warnings[Len(warnings)].text = CouldNotVerify(dependencies[i].pkg, B)
    /\ updated_deps[B] = InputMap[B]

\* C22: satisfied peers are untouched. When the exact version a peer is
\* currently resolved to (its entry without the ^ or ~ prefix) satisfies the
\* required specifier, the peer-loop step issues no GET, leaves the cache and
\* the resolved map as they are and appends no warning.
C22_SatisfiedPeerUntouched ==
    [][LET peer == Head(peer_deps).peer
           exact == parse_version(updated_deps[peer])
       IN  (/\ PeerStep
            /\ exact # NoVersion
            /\ Satisfies(exact, Head(peer_deps).required_version))
               => /\ net_calls' = net_calls
                  /\ cache' = cache
                  /\ updated_deps' = updated_deps
                  /\ warnings' = warnings]_vars

\* a get_package_info call has just returned from a fetch that failed (a
\* non-200 response, a network failure or an unparsable body)
FailedFetchReturns ==
    /\ Len(log') = Len(log) + 1
    /\ log'[Len(log')].net
    /\ log'[Len(log')].data.is_none

\* C23: registry failure is absorbed without side effect. A get_package_info
\* call whose fetch fails returns None to its caller, who is idle again, and
\* the cache after the call is the cache before it, entry for entry.
C23_FailureAbsorbed ==
    [][FailedFetchReturns
          => /\ cache' = cache
             /\ package_info' = None
             /\ tasks'[log'[Len(log')].task] = Idle]_vars

\* a fetch failed for a package whose expired entry is still in the cache
C23_Witness ==
    \E k \in 1..Len(log) :
        /\ log[k].net
        /\ log[k].data.is_none
        /\ log[k].age >= cache_ttl
        /\ log[k].pkg \in DOMAIN cache
        /\ ~cache[log[k].pkg].data.is_none

\* the text of w has the word, in lower case or capitalised
Mentions(w, lower, capitalised) ==
    \E k \in 1..Len(w.text) : w.text[k] = lower \/ w.text[k] = capitalised

\* sub is full restricted to the positions in keep, in the order of full
SubListAt(sub, full, keep) ==
    /\ Len(sub) = Cardinality(keep)
    /\ \A n \in keep : sub[Cardinality({m \in keep : m <= n})] = full[n]

\* a warning text with neither word
Plain == [kind |-> "other", pkg |-> <<>>, peer |-> <<>>, text |-> <<"Checked", " ", "a">>]

\* C24: warning categorization. In the returned report compatibility_warnings
\* is the warnings whose text contains "compatibility" and version_updates the
\* warnings whose text contains "updated" in any case, each in the order of
\* the warning list; a warning is placed by each test on its own, so one with
\* both words is in both lists and one with neither is in neither.
C24_WarningCategorization ==
    /\ pc = "done"
          => /\ SubListAt(analysis.compatibility_warnings, warnings,
                          {n \in 1..Len(warnings) :
                              Mentions(warnings[n], "compatibility", "Compatibility")})
             /\ SubListAt(analysis.version_updates, warnings,
                          {n \in 1..Len(warnings) :
                              Mentions(warnings[n], "updated", "Updated")})
    /\ Report(<<>>, EmptyMap, <<Plain>>).compatibility_warnings = <<>>
    /\ Report(<<>>, EmptyMap, <<Plain>>).version_updates = <<>>

\* a report whose warnings are a resolution warning (in both lists), then a
\* could-not-verify warning (compatibility only) or a peer warning (update only)
C24_Witness ==
    /\ pc = "done"
    /\ Len(warnings) >= 2
    /\ warnings[1].kind = "resolved"
    /\ analysis.compatibility_warnings[1] = warnings[1]
    /\ analysis.version_updates[1] = warnings[1]
    /\ Len(analysis.compatibility_warnings) # Len(analysis.version_updates)

\* a call of task t issues its GET in this step
IssuesGet(t) == tasks[t].pc = "idle" /\ tasks'[t].pc = "awaiting"

\* a call that issued a GET returns in this step
FetchReturns == Len(log') = Len(log) + 1 /\ log'[Len(log')].net

\* the cache slots of the packages other than package_name are as they were
OtherSlotsKept(package_name) ==
    \A q \in Packages \ {package_name} :
        /\ q \in DOMAIN cache' <=> q \in DOMAIN cache
        /\ q \in DOMAIN cache => cache'[q] = cache[q]

\* C25: concurrent fetches on one shared cache. A call that misses the cache
\* issues exactly one GET of its own, also while another call for the same
\* package is awaiting its response; when its response arrives the call
\* returns what that response carried (the registry's metadata, or absent
\* when the request failed, whatever another call has cached meanwhile), a
\* successful one leaves a single entry {data, timestamp = now} for its
\* package, and the slots of all other packages are untouched; every entry
\* of the cache holds metadata and a timestamp that is not in the future.
C25_InterleavedFetches ==
    [][/\ \A t \in Tasks :
              IssuesGet(t)
                  => /\ net_calls' = [net_calls EXCEPT ![tasks'[t].pkg] = @ + 1]
                     /\ cache' = cache
       /\ FetchReturns
              => LET e == log'[Len(log')]
                 IN  /\ net_calls' = net_calls
                     /\ tasks'[e.task] = Idle
                     /\ OtherSlotsKept(e.pkg)
                     /\ IF e.data.is_none THEN cache' = cache
                        ELSE /\ e.data = registry[e.pkg]
                             /\ cache'[e.pkg] = [data |-> e.data, timestamp |-> now]
       /\ \A q \in DOMAIN cache' :
              /\ ~cache'[q].data.is_none
              /\ cache'[q].timestamp <= now']_vars

\* two calls for the same uncached package were both awaiting at once; the
\* first to return cached its metadata, the second one's request failed and
\* it returned absent while the entry of the first stayed in the cache
C25_Witness ==
    /\ Len(log) = 2
    /\ log[1].task # log[2].task
    /\ log[1].pkg = log[2].pkg
    /\ log[1].net /\ log[2].net
    /\ log[1].age = 0 - 1 /\ log[2].age = 0 - 1
    /\ log[2].at <= log[1].done
    /\ ~log[1].data.is_none /\ log[2].data.is_none
    /\ log[1].pkg \in DOMAIN cache
    /\ net_calls[log[1].pkg] = 2

\* the package names of the first n entries of the input map
InputNames(n) == {dependencies[k].pkg : k \in 1..n}

\* C26: key-set preservation. While Pass 1 runs the resolved map has the
\* names of the entries it has processed; from the end of Pass 1 on, in every
\* state of Pass 2 and its peer loop and in the returned report, it has
\* exactly the package names of the input map: Pass 2 adds no peer that the
\* input does not have and removes no package.
C26_KeySetPreserved ==
    /\ pc = "pass1" => DOMAIN updated_deps = InputNames(i - 1)
    /\ pc \in {"pass2", "peers", "raised", "done"}
          => DOMAIN updated_deps = InputNames(Len(dependencies))
    /\ pc = "done"
          => DOMAIN analysis.updated_dependencies = InputNames(Len(dependencies))

\* a returned report for a map whose first package declares two peers: one
\* that the map does not have, and one that Pass 2 overwrote
C26_Witness ==
    /\ pc = "done"
    /\ Len(dependencies) >= 2
    /\ \E n \in 1..Len(PeersOf(dependencies[1].pkg)) :
          PeersOf(dependencies[1].pkg)[n].peer \notin DOMAIN analysis.updated_dependencies
    /\ \E k \in 2..Len(dependencies) :
          /\ Overwrote(1, dependencies[k].pkg)
          /\ analysis.updated_dependencies[dependencies[k].pkg] # dependencies[k].spec

\* pkg's metadata was fetched and lists the version string key
FetchedListing(pkg, key) ==
    /\ net_calls[pkg] >= 1
    /\ pkg \in DOMAIN cache
    /\ \E k \in 1..Len(VersionKeys(cache[pkg].data)) : VersionKeys(cache[pkg].data)[k] = key

\* C27: provenance of resolved values. In every state of check_compatibility
\* and in the returned report, the entry of each package is its input
\* specifier, or "^" followed by a version string listed by the metadata that
\* was fetched for that package: no version is invented.
C27_Provenance ==
    /\ \A p \in DOMAIN updated_deps :
          \/ updated_deps[p] = InputMap[p]
          \/ /\ Head(updated_deps[p]) = "^"
             /\ FetchedListing(p, Tail(updated_deps[p]))
    /\ pc = "done" => analysis.updated_dependencies = updated_deps

\* a returned map with an entry Pass 1 resolved, an entry a peer requirement
\* overwrote with another version, and an entry that is still its specifier
\* although its metadata was fetched
C27_Witness ==
    /\ pc = "done"
    /\ \E k \in 1..Len(warnings) :
          /\ warnings[k].kind = "resolved"
          /\ updated_deps[warnings[k].pkg] # InputMap[warnings[k].pkg]
    /\ \E k \in 1..Len(warnings) :
          /\ warnings[k].kind = "peer"
          /\ updated_deps[warnings[k].peer] # InputMap[warnings[k].peer]
    /\ \E p \in DOMAIN updated_deps :
          /\ updated_deps[p] = InputMap[p]
          /\ p \in DOMAIN cache /\ VersionKeys(cache[p].data) # <<>>

\* a call returns in this step; its record is the last of log'
Returns == Len(log') = Len(log) + 1

\* C28: no stale reads. A call that returns cached metadata found an entry
\* less than one TTL old and returns that entry's data; a call that finds an
\* entry one TTL old or older issues a GET; and when the GET of such a call
\* fails the call returns absent and leaves the entry in the cache as it
\* was, data and timestamp.
C28_NoStaleReads ==
    [][/\ Returns
          => LET e == log'[Len(log')]
             IN  /\ ~e.net
                    => /\ e.pkg \in DOMAIN cache
                       /\ now - cache[e.pkg].timestamp < cache_ttl
                       /\ e.age = now - cache[e.pkg].timestamp
                       /\ e.data = cache[e.pkg].data
                 /\ e.age >= cache_ttl
                    => /\ e.net
                       /\ e.data.is_none
                             => /\ e.pkg \in DOMAIN cache'
                                /\ cache'[e.pkg] = cache[e.pkg]
       /\ \A t \in Tasks, p \in Packages :
              (/\ tasks[t].pc = "idle"
               /\ tasks'[t] # tasks[t] \/ log' # log
               /\ p \in DOMAIN cache
               /\ now - cache[p].timestamp >= cache_ttl
               /\ IF log' # log THEN log'[Len(log')].pkg = p /\ log'[Len(log')].task = t
                  ELSE tasks'[t].pkg = p)
                  => IssuesGet(t) /\ net_calls'[p] = net_calls[p] + 1]_vars

\* a caller fetched a package, was served from the cache one tick later, and
\* once the entry was one TTL old its refetch failed: it got absent and the
\* entry is still in the cache with the timestamp of the first fetch
C28_Witness ==
    /\ Len(log) = 3
    /\ log[1].pkg = log[2].pkg /\ log[2].pkg = log[3].pkg
    /\ log[1].net /\ ~log[1].data.is_none
    /\ ~log[2].net /\ log[2].age = cache_ttl - 1 /\ log[2].data = log[1].data
    /\ log[3].net /\ log[3].age = cache_ttl /\ log[3].data.is_none
    /\ cache[log[1].pkg].timestamp = log[1].done
    /\ cache[log[1].pkg].data = log[1].data

\* w is an element of the list ws
In(w, ws) == \E n \in 1..Len(ws) : ws[n] = w

\* C29: no warning is lost. Every warning check_compatibility emitted is in
\* compatibility_warnings or in version_updates of the returned report, and
\* every Pass 1 resolution warning is in both.
C29_NoWarningLost ==
    pc = "done"
        => \A k \in 1..Len(warnings) :
              /\ \/ In(warnings[k], analysis.compatibility_warnings)
                 \/ In(warnings[k], analysis.version_updates)
              /\ warnings[k].kind = "resolved"
                    => /\ In(warnings[k], analysis.compatibility_warnings)
                       /\ In(warnings[k], analysis.version_updates)

\* a report whose warnings include a resolution warning, a could-not-verify
\* warning that is only in compatibility_warnings, and a closest-version or
\* peer warning that is only in version_updates
C29_Witness ==
    /\ pc = "done"
    /\ \E j, k, m \in 1..Len(warnings) :
          /\ warnings[j].kind = "resolved"
          /\ warnings[k].kind = "unverified"
          /\ ~In(warnings[k], analysis.version_updates)
          /\ warnings[m].kind \in {"closest", "peer"}
          /\ ~In(warnings[m], analysis.compatibility_warnings)

\* the peer loop step cannot obtain a version of peer that satisfies the
\* requirement: the registry does not know the peer, the fetch this step
\* issued returned absent, or no version the peer lists satisfies it
NoSatisfyingVersion(peer, requirement) ==
    \/ registry[peer].is_none
    \/ net_calls'[peer] = net_calls[peer] + 1 /\ package_info'.is_none
    \/ Satisfying(peer, requirement) = {}

\* C30: an unsatisfiable peer requirement is silent. A peer loop step whose
\* peer is in the map at a version that does not satisfy the requirement, and
\* for which the peer's metadata is absent or lists no version satisfying the
\* requirement, leaves the resolved map unchanged and appends no warning.
C30_UnsatisfiableSilent ==
    [][LET peer == Head(peer_deps).peer
           required_version == Head(peer_deps).required_version
           exact == parse_version(updated_deps[peer])
       IN  (/\ PeerStep
            /\ exact # NoVersion
            /\ ~Satisfies(exact, required_version)
            /\ NoSatisfyingVersion(peer, required_version))
               => /\ updated_deps' = updated_deps
                  /\ warnings' = warnings]_vars

====
